---- MODULE Spec2Model ----
(***************************************************************************)
(* SMB_COM_NT_TRANSACT (0xA0) command handler of node-smb-server,          *)
(* lib/smb/cmd/nt_transact.js: header decoding, subcommand dispatch and    *)
(* response assembly, as a state machine over in-flight requests.          *)
(***************************************************************************)
EXTENDS Integers, Sequences, FiniteSets, TLC

(***************************************************************************)
(* Bounds of the model.                                                    *)
(***************************************************************************)
\* longest params buffer a subcommand handler returns
MaxParamsLen == 4
\* longest data buffer a subcommand handler returns
MaxDataLen == 2

\* requests (distinct msg objects) the model knows
Reqs == {1, 2}

(***************************************************************************)
(* Values of ../../constants and ../../utils used by the handler.          *)
(***************************************************************************)
STATUS_SUCCESS == "STATUS_SUCCESS"
STATUS_NOT_IMPLEMENTED == "STATUS_NOT_IMPLEMENTED"
STATUS_SMB_BAD_COMMAND == "STATUS_SMB_BAD_COMMAND"
\* a failure status only a subcommand handler reports
STATUS_ACCESS_DENIED == "STATUS_ACCESS_DENIED"

\* JavaScript null / undefined for a field the parser could not read
NULL == -1
\* no subcommand name: consts.NTTRANS_SUBCOMMAND_TO_STRING[x] === undefined
NoName == "undefined"

\* consts.NTTRANS_SUBCOMMAND_TO_STRING
NTTRANS_SUBCOMMAND_TO_STRING(code) ==
  CASE code = 1 -> "nt_transact_create"
    [] code = 2 -> "nt_transact_ioctl"
    [] code = 3 -> "nt_transact_set_security_desc"
    [] code = 4 -> "nt_transact_notify_change"
    [] code = 5 -> "nt_transact_rename"
    [] code = 6 -> "nt_transact_query_security_desc"
    [] OTHER -> NoName

\* values the external constant consts.SMB_MIN_LENGTH is tried with
SmbMinLengths == 32..35

\* utils.calculatePadLength(offset, alignment)
calculatePadLength(offset, alignment) ==
  IF offset % alignment = 0 THEN 0 ELSE alignment - (offset % alignment)

\* utils.EMPTY_BUFFER
EMPTY_BUFFER == << >>

(***************************************************************************)
(* Buffers are sequences of bytes; JavaScript offsets are 0-based.         *)
(***************************************************************************)
Zeros(n) == [i \in 1..n |-> 0]

\* ToNumber of a parsed field: null counts as 0 in arithmetic and comparison
Num(x) == IF x = NULL THEN 0 ELSE x

Min(a, b) == IF a < b THEN a ELSE b

\* Buffer.prototype.slice(start, end) for non-negative start and end
Slice(buf, start, end) ==
  LET s == Min(Num(start), Len(buf))
      e == Min(Num(end), Len(buf))
  IN  IF e <= s THEN << >> ELSE SubSeq(buf, s + 1, e)

\* put().word8 / word32le: the low bytes of the value, least significant first
PutWord8(x) == << x % 256 >>
PutWord16le(x) == << x % 256, (x \div 256) % 256 >>
PutWord32le(x) ==
  << x % 256, (x \div 256) % 256, (x \div 65536) % 256, (x \div 16777216) % 256 >>

\* the little-endian value of a byte sequence, as binary's word8le/16le/32le
RECURSIVE LEValue(_)
LEValue(bytes) ==
  IF bytes = << >> THEN 0 ELSE Head(bytes) + 256 * LEValue(Tail(bytes))

(***************************************************************************)
(* Decoding of commandParams (binary.parse chain of handle).               *)
(***************************************************************************)
\* the chain of reads, in order: a word of `bytes` bytes stored under `name`,
\* or a skip of `bytes` bytes
HeaderLayout ==
  << [kind |-> "word", name |-> "maxSetupCount", bytes |-> 1],
     [kind |-> "skip", name |-> "reserved1", bytes |-> 2],
     [kind |-> "word", name |-> "totalParameterCount", bytes |-> 4],
     [kind |-> "word", name |-> "totalDataCount", bytes |-> 4],
     [kind |-> "word", name |-> "maxParameterCount", bytes |-> 4],
     [kind |-> "word", name |-> "maxDataCount", bytes |-> 4],
     [kind |-> "word", name |-> "parameterCount", bytes |-> 4],
     [kind |-> "word", name |-> "parameterOffset", bytes |-> 4],
     [kind |-> "word", name |-> "dataCount", bytes |-> 4],
     [kind |-> "word", name |-> "dataOffset", bytes |-> 4],
     [kind |-> "word", name |-> "setupCount", bytes |-> 1],
     [kind |-> "word", name |-> "function", bytes |-> 2] >>

FieldNames == { HeaderLayout[i].name : i \in { j \in 1..Len(HeaderLayout) : HeaderLayout[j].kind = "word" } }

\* binary.parse(buffer).wordNle(name): the value when the bytes are there
\* (the cursor advances), null otherwise (the cursor stays); skip always
\* advances the cursor
RECURSIVE ParseWords(_, _, _, _)
ParseWords(buffer, i, offset, vars) ==
  IF i > Len(HeaderLayout) THEN [vars |-> vars, offset |-> offset]
  ELSE LET f == HeaderLayout[i]
       IN  IF f.kind = "skip"
           THEN ParseWords(buffer, i + 1, offset + f.bytes, vars)
           ELSE IF offset + f.bytes <= Len(buffer)
                THEN ParseWords(buffer, i + 1, offset + f.bytes,
                       [vars EXCEPT ![f.name] =
                          LEValue(SubSeq(buffer, offset + 1, offset + f.bytes))])
                ELSE ParseWords(buffer, i + 1, offset,
                       [vars EXCEPT ![f.name] = NULL])

\* paramsObj: the parser's vars after the whole chain, setup included
\* (.buffer('setup', 2 * setupCount) is a clamped slice at the cursor)
DecodeParams(commandParams) ==
  LET p == ParseWords(commandParams, 1, 0, [n \in FieldNames |-> NULL])
      size == 2 * Num(p.vars["setupCount"])
  IN  [hdr |-> p.vars,
       setup |-> Slice(commandParams, p.offset,
                       Min(Len(commandParams), p.offset + size))]

\* the wire image of a header, as a client writes it
EncodeParams(h, setup) ==
  PutWord8(h.maxSetupCount) \o Zeros(2)
    \o PutWord32le(h.totalParameterCount) \o PutWord32le(h.totalDataCount)
    \o PutWord32le(h.maxParameterCount) \o PutWord32le(h.maxDataCount)
    \o PutWord32le(h.parameterCount) \o PutWord32le(h.parameterOffset)
    \o PutWord32le(h.dataCount) \o PutWord32le(h.dataOffset)
    \o PutWord8(h.setupCount) \o PutWord16le(h.function) \o setup

(***************************************************************************)
(* The request side of handle.                                             *)
(***************************************************************************)
\* msg after _.assign(msg, paramsObj) and msg.subCommandId = msg.function
AssignParams(commandParams) ==
  LET d == DecodeParams(commandParams)
  IN  [hdr |-> d.hdr, setup |-> d.setup, subCommandId |-> d.hdr["function"]]

\* a lookup that falls back on a registered subcommand for an unknown code
SubCommandOfFallback(subCommandId) ==
  IF subCommandId = NULL \/ NTTRANS_SUBCOMMAND_TO_STRING(subCommandId) = NoName
  THEN "nt_transact_ioctl"
  ELSE NTTRANS_SUBCOMMAND_TO_STRING(subCommandId)

\* subCommand of a decoded function code; null has no entry
SubCommandOf(subCommandId) ==
  IF subCommandId = NULL THEN NoName ELSE NTTRANS_SUBCOMMAND_TO_STRING(subCommandId)

\* "decode data": NT_Trans_Parameters and NT_Trans_Data, slices of commandData
\* whose second argument is the count, and the final off
LocalSlices(commandData, commandDataOffset, hdr) ==
  LET off0 == calculatePadLength(commandDataOffset, 4)
      off1 == off0 + Num(hdr["parameterCount"])
      off2 == off1 + calculatePadLength(off1, 4)
  IN  [paramsStart |-> off0,
       NT_Trans_Parameters |-> Slice(commandData, off0, hdr["parameterCount"]),
       dataStart |-> off2,
       NT_Trans_Data |-> Slice(commandData, off2, hdr["dataCount"]),
       off |-> off2 + Num(hdr["dataCount"])]

\* the slices of the whole message with the count given as the end index
AbsoluteSlicesEndIsCount(buf, hdr) ==
  [subParams |-> Slice(buf, hdr["parameterOffset"], hdr["parameterCount"]),
   subData |-> Slice(buf, hdr["dataOffset"], hdr["dataCount"])]

\* subParams and subData: slices of the whole message at the declared offsets
AbsoluteSlices(buf, hdr) ==
  [subParams |-> Slice(buf, hdr["parameterOffset"],
                       Num(hdr["parameterOffset"]) + Num(hdr["parameterCount"])),
   subData |-> Slice(buf, hdr["dataOffset"],
                     Num(hdr["dataOffset"]) + Num(hdr["dataCount"]))]

\* the chunked-transaction test with the data counts forgotten
IsIncompleteParamsOnly(hdr) ==
  Num(hdr["parameterCount"]) < Num(hdr["totalParameterCount"])

\* the chunked-transaction test
IsIncomplete(hdr) ==
  \/ Num(hdr["parameterCount"]) < Num(hdr["totalParameterCount"])
  \/ Num(hdr["dataCount"]) < Num(hdr["totalDataCount"])

\* the chunked result passed to cb at once, not through process.nextTick
DeliverChunkedDirectly == FALSE

\* whether the chunked result goes through process.nextTick
DeliverChunkedOnNextTick == TRUE

\* the result a queued tick passes to cb when result is shared by all calls:
\* that of another call with a tick queued, if there is one
TickResultShared(queue, r) ==
  IF \E x \in DOMAIN queue : x # r /\ queue[x] # << >>
  THEN Head(queue[CHOOSE x \in DOMAIN queue : x # r /\ queue[x] # << >>])
  ELSE Head(queue[r])

\* the result a queued tick passes to cb: the one its own call of handle built
TickResult(queue, r) == Head(queue[r])

\* a lookup that registers the name it was asked for
RegistryAfterLookupRegisters(handlers, subCommand) == handlers \cup {subCommand}

\* subCmdHandlers after var handler = subCmdHandlers[subCommand]: a read
RegistryAfterLookup(handlers, subCommand) == handlers

\* the result of a chunked transaction, delivered on the next tick
ChunkedResult(commandParams, commandData) ==
  [status |-> STATUS_NOT_IMPLEMENTED, params |-> commandParams, data |-> commandData]

\* the unsupported-subcommand result with the two buffers exchanged
UnsupportedResultSwapped(commandParams, commandData) ==
  [status |-> STATUS_NOT_IMPLEMENTED, params |-> commandData, data |-> commandParams]

\* the result when no handler is registered for the subcommand
UnsupportedResult(commandParams, commandData) ==
  [status |-> STATUS_NOT_IMPLEMENTED, params |-> commandParams, data |-> commandData]

(***************************************************************************)
(* The handler's continuation: failure echo and response assembly.         *)
(***************************************************************************)
\* result.setup || utils.EMPTY_BUFFER; a missing setup is the empty sequence
\* of buffers, a present one a sequence holding the buffer
SetupOf(result) == IF result.setup = << >> THEN EMPTY_BUFFER ELSE result.setup[1]

\* a failed handler result that keeps the handler's own params
FailureResultKeepsParams(result, commandParams, commandData) ==
  [result EXCEPT !.data = commandData]

\* a failed handler result: the handler's result object itself, its params and
\* data overwritten with the request's own buffers
FailureResult(result, commandParams, commandData) ==
  [result EXCEPT !.params = commandParams, !.data = commandData]

\* the offsets with off not advanced over the params
ResponseOffsetsParamsNotCounted(paramsLen, dataLen, setupLen, smbMinLength) ==
  LET paramsLength == 36 + setupLen
      dataOffset == smbMinLength + paramsLength
      pad1 == calculatePadLength(dataOffset, 4)
      subParamsOffset == dataOffset + pad1
      pad2 == calculatePadLength(subParamsOffset, 4)
      subDataOffset == subParamsOffset + pad2
  IN  [paramsLength |-> paramsLength, dataOffset |-> dataOffset,
       pad1 |-> pad1, subParamsOffset |-> subParamsOffset,
       pad2 |-> pad2, subDataOffset |-> subDataOffset,
       off |-> subDataOffset + dataLen]

\* the offsets with off not advanced over pad1
ResponseOffsetsPad1NotCounted(paramsLen, dataLen, setupLen, smbMinLength) ==
  LET paramsLength == 36 + setupLen
      dataOffset == smbMinLength + paramsLength
      pad1 == calculatePadLength(dataOffset, 4)
      subParamsOffset == dataOffset
      off2 == subParamsOffset + paramsLen
      pad2 == calculatePadLength(off2, 4)
      subDataOffset == off2 + pad2
  IN  [paramsLength |-> paramsLength, dataOffset |-> dataOffset,
       pad1 |-> pad1, subParamsOffset |-> subParamsOffset,
       pad2 |-> pad2, subDataOffset |-> subDataOffset,
       off |-> subDataOffset + dataLen]

\* "calculate offsets and paddings"
ResponseOffsets(paramsLen, dataLen, setupLen, smbMinLength) ==
  LET paramsLength == 36 + setupLen
      dataOffset == smbMinLength + paramsLength
      pad1 == calculatePadLength(dataOffset, 4)
      subParamsOffset == dataOffset + pad1
      off2 == subParamsOffset + paramsLen
      pad2 == calculatePadLength(off2, 4)
      subDataOffset == off2 + pad2
  IN  [paramsLength |-> paramsLength, dataOffset |-> dataOffset,
       pad1 |-> pad1, subParamsOffset |-> subParamsOffset,
       pad2 |-> pad2, subDataOffset |-> subDataOffset,
       off |-> subDataOffset + dataLen]

\* the parameter block with ParameterOffset and DataOffset exchanged
ResponseParamsOffsetsSwapped(o, subParams, subData, setup) ==
  Zeros(3)
    \o PutWord32le(Len(subParams)) \o PutWord32le(Len(subData))
    \o PutWord32le(Len(subParams)) \o PutWord32le(o.subDataOffset)
    \o PutWord32le(0)
    \o PutWord32le(Len(subData)) \o PutWord32le(o.subParamsOffset)
    \o PutWord32le(0)
    \o PutWord8(Len(setup)) \o setup

\* "params": the reply's parameter block
ResponseParams(o, subParams, subData, setup) ==
  Zeros(3)
    \o PutWord32le(Len(subParams)) \o PutWord32le(Len(subData))
    \o PutWord32le(Len(subParams)) \o PutWord32le(o.subParamsOffset)
    \o PutWord32le(0)
    \o PutWord32le(Len(subData)) \o PutWord32le(o.subDataOffset)
    \o PutWord32le(0)
    \o PutWord8(Len(setup)) \o setup

\* the data block with the two paddings exchanged
ResponseDataPadsSwapped(o, subParams, subData) ==
  Zeros(o.pad2) \o subParams \o Zeros(o.pad1) \o subData

\* the data block with the second padding left out
ResponseDataNoPad2(o, subParams, subData) ==
  Zeros(o.pad1) \o subParams \o subData

\* "data": the reply's data block
ResponseData(o, subParams, subData) ==
  Zeros(o.pad1) \o subParams \o Zeros(o.pad2) \o subData

\* the assembled reply of a successful handler result
SuccessResult(result, smbMinLength) ==
  LET setup == SetupOf(result)
      o == ResponseOffsets(Len(result.params), Len(result.data), Len(setup), smbMinLength)
  IN  [status |-> STATUS_SUCCESS,
       params |-> ResponseParams(o, result.params, result.data, setup),
       data |-> ResponseData(o, result.params, result.data)]

\* the handler's result object once the continuation has run: overwritten on
\* the failure path, left alone on the success path (result is rebound)
ResultObjectAfter(result, commandParams, commandData) ==
  IF result.status # STATUS_SUCCESS
  THEN FailureResult(result, commandParams, commandData)
  ELSE result

\* the continuation with the failure path's return left out: it goes on to
\* assemble a reply from the result it has just overwritten
ContinuationCallsNoReturn(result, commandParams, commandData, smbMinLength) ==
  IF result.status # STATUS_SUCCESS
  THEN << FailureResult(result, commandParams, commandData),
          SuccessResult([result EXCEPT !.params = commandParams,
                                       !.data = commandData], smbMinLength) >>
  ELSE << SuccessResult(result, smbMinLength) >>

\* the continuation handed to the handler, as the results it passes to cb,
\* in order
ContinuationCalls(result, commandParams, commandData, smbMinLength) ==
  IF result.status # STATUS_SUCCESS
  THEN << FailureResult(result, commandParams, commandData) >>
  ELSE << SuccessResult(result, smbMinLength) >>

\* the offsets the continuation computed, none on the failure path
ContinuationOffsets(result, smbMinLength) ==
  IF result.status # STATUS_SUCCESS
  THEN << >>
  ELSE << ResponseOffsets(Len(result.params), Len(result.data),
                          Len(SetupOf(result)), smbMinLength) >>

(***************************************************************************)
(* Requests as the connection layer hands them to handle.                  *)
(***************************************************************************)
\* function codes tried: two mapped ones and one outside the table
FunctionCodes == {1, 2, 65535}
\* <<parameterCount, totalParameterCount>> pairs tried
ParamCounts == { <<0, 0>>, <<4, 4>>, <<2, 4>> }
\* <<dataCount, totalDataCount>> pairs tried
DataCounts == { <<0, 0>>, <<1, 3>>, <<3, 1>> }
\* setupCount values tried
SetupCounts == {0, 1}
\* an offset beyond every message of the model
FarOffset == 200

PayloadBytes(n, base) == [i \in 1..n |-> base + i]

\* the message a client sends: 32 header bytes, the word count, the command's
\* parameter words, the byte count, the command's data bytes
MessageOf(commandParams, commandData) ==
  LET commandParamsOffset == 33
      commandDataOffset == commandParamsOffset + Len(commandParams) + 2
  IN  [commandId |-> 160,
       commandParams |-> commandParams,
       commandData |-> commandData,
       commandParamsOffset |-> commandParamsOffset,
       commandDataOffset |-> commandDataOffset,
       buf |-> Zeros(32) \o PutWord8(Len(commandParams) \div 2) \o commandParams
                 \o PutWord16le(Len(commandData)) \o commandData]

\* a whole transaction request; with goodOffsets the header's offsets point at
\* the payloads, otherwise beyond the message
WholeRequest(fn, pcnt, dcnt, setupCount, goodOffsets) ==
  LET cdo == 33 + (38 + 2 * setupCount) + 2
      p1 == calculatePadLength(cdo, 4)
      po == cdo + p1
      p2 == calculatePadLength(po + pcnt[1], 4)
      do == po + pcnt[1] + p2
      h == [maxSetupCount |-> 0,
            totalParameterCount |-> pcnt[2], totalDataCount |-> dcnt[2],
            maxParameterCount |-> 16, maxDataCount |-> 16,
            parameterCount |-> pcnt[1],
            parameterOffset |-> IF goodOffsets THEN po ELSE FarOffset,
            dataCount |-> dcnt[1],
            dataOffset |-> IF goodOffsets THEN do ELSE FarOffset,
            setupCount |-> setupCount, function |-> fn]
  IN  MessageOf(EncodeParams(h, PayloadBytes(2 * setupCount, 64)),
                Zeros(p1) \o PayloadBytes(pcnt[1], 96)
                  \o Zeros(p2) \o PayloadBytes(dcnt[1], 128))

WholeRequests ==
  { WholeRequest(fn, pcnt, dcnt, sc, g) :
      fn \in FunctionCodes, pcnt \in ParamCounts, dcnt \in DataCounts,
      sc \in SetupCounts, g \in BOOLEAN }

\* requests whose commandParams stop short of the header: nothing at all, the
\* function code cut off, the setup bytes cut off, and six bytes of which the
\* last three read as setupCount 0 and function 2
TruncatedRequests ==
  LET w == WholeRequest(2, <<4, 4>>, <<0, 0>>, 1, TRUE)
  IN  { MessageOf(SubSeq(w.commandParams, 1, n), w.commandData) : n \in {0, 37, 39} }
        \cup { MessageOf(<<0, 0, 0, 0, 2, 0>>, << >>) }

Requests == WholeRequests \cup TruncatedRequests

\* the entries fs.readdirSync finds in the nttrans directory, as listings tried
DirListings ==
  { { [stem |-> "nt_transact_create", ext |-> ".md", isDirectory |-> FALSE],
      [stem |-> "nt_transact_rename", ext |-> ".js", isDirectory |-> TRUE] },
    { [stem |-> "nt_transact_ioctl", ext |-> ".js", isDirectory |-> FALSE],
      [stem |-> "nt_transact_create", ext |-> ".md", isDirectory |-> FALSE],
      [stem |-> "nt_transact_rename", ext |-> ".js", isDirectory |-> TRUE] },
    { [stem |-> "nt_transact_ioctl", ext |-> ".js", isDirectory |-> FALSE],
      [stem |-> "nt_transact_create", ext |-> ".js", isDirectory |-> FALSE] } }

\* the keys of subCmdHandlers after the scan: the .js files, less the suffix
loadSubCmdHandlers(files) ==
  { f.stem : f \in { g \in files : ~g.isDirectory /\ g.ext = ".js" } }

\* the requests tried two at a time: a served one, two chunked ones, one
\* with a payload of data and one with an unknown function code
ConcRequests ==
  { WholeRequest(2, <<4, 4>>, <<0, 0>>, 0, TRUE),
    WholeRequest(2, <<2, 4>>, <<0, 0>>, 0, TRUE),
    WholeRequest(1, <<2, 4>>, <<1, 3>>, 1, TRUE),
    WholeRequest(1, <<0, 0>>, <<3, 1>>, 1, TRUE),
    WholeRequest(65535, <<0, 0>>, <<0, 0>>, 0, TRUE) }

(***************************************************************************)
(* What a subcommand handler may pass to its continuation.                 *)
(***************************************************************************)
\* the shortest setup whose length does not fit the SetupCount byte
LongSetupLen == 256

HandlerSetups ==
  { << >>, << EMPTY_BUFFER >>, << PayloadBytes(2, 48) >>, << Zeros(LongSetupLen) >> }

HandlerResults ==
  [status : {STATUS_SUCCESS, STATUS_ACCESS_DENIED, STATUS_NOT_IMPLEMENTED},
   params : { PayloadBytes(n, 16) : n \in 0..MaxParamsLen },
   data : { PayloadBytes(n, 32) : n \in 0..MaxDataLen },
   setup : HandlerSetups]

\* the results tried when two requests are served at a time
ConcHandlerResults ==
  { [status |-> STATUS_SUCCESS, params |-> PayloadBytes(3, 16),
     data |-> PayloadBytes(2, 32), setup |-> << >>],
    [status |-> STATUS_SUCCESS, params |-> PayloadBytes(1, 16),
     data |-> << >>, setup |-> << PayloadBytes(2, 48) >>],
    [status |-> STATUS_ACCESS_DENIED, params |-> PayloadBytes(2, 16),
     data |-> PayloadBytes(1, 32), setup |-> << >>] }

\* the results the loaded handler modules may pass on
ResultsOf(impl) == IF impl = "arbitrary" THEN HandlerResults ELSE ConcHandlerResults

(***************************************************************************)
(* State.                                                                  *)
(***************************************************************************)
VARIABLES
  subCmdHandlers,   \* names with a registered handler
  SMB_MIN_LENGTH,   \* consts.SMB_MIN_LENGTH
  handlerImpl,      \* the handler modules loaded: arbitrary ones or the sampled ones
  req,              \* per request: the arguments of handle, << >> when absent
  pc,               \* per request: where the call of handle is
  msg,              \* per request: the fields handle attached to msg
  local,            \* per request: NT_Trans_Parameters, NT_Trans_Data and off
  nextTick,         \* per request: results queued with process.nextTick
  hargs,            \* per request: the handler invocations, with their arguments
  hres,             \* per request: what the handler passed to its continuation
  hobj,             \* per request: the handler's result object after the continuation
  asm,              \* per request: the offsets of the response assembly
  cbLog,            \* per request: the results passed to cb, in order
  cbWhen            \* per request: for each call of cb, whether handle was still
                    \* running and which other requests were in flight

vars == << subCmdHandlers, SMB_MIN_LENGTH, handlerImpl, req, pc, msg, local, nextTick, hargs, hres, hobj, asm, cbLog, cbWhen >>

\* what no request has touched yet
Untouched ==
  /\ msg = [r \in Reqs |-> << >>]
  /\ local = [r \in Reqs |-> << >>]
  /\ nextTick = [r \in Reqs |-> << >>]
  /\ hargs = [r \in Reqs |-> << >>]
  /\ hres = [r \in Reqs |-> << >>]
  /\ hobj = [r \in Reqs |-> << >>]
  /\ asm = [r \in Reqs |-> << >>]
  /\ cbLog = [r \in Reqs |-> << >>]
  /\ cbWhen = [r \in Reqs |-> << >>]

\* the module is loaded, request 1 has arrived
Init ==
  /\ \E files \in DirListings : subCmdHandlers = loadSubCmdHandlers(files)
  /\ SMB_MIN_LENGTH \in SmbMinLengths
  /\ handlerImpl = "arbitrary"
  /\ \E q \in Requests : req = [r \in Reqs |-> IF r = 1 THEN << q >> ELSE << >>]
  /\ pc = [r \in Reqs |-> IF r = 1 THEN "ready" ELSE "absent"]
  /\ Untouched

\* the module is loaded, two requests with msg objects of their own have arrived
InitConc ==
  /\ \E files \in DirListings : subCmdHandlers = loadSubCmdHandlers(files)
  /\ SMB_MIN_LENGTH \in SmbMinLengths
  /\ handlerImpl = "sampled"
  /\ req \in [Reqs -> { << q >> : q \in ConcRequests }]
  /\ pc = [r \in Reqs |-> "ready"]
  /\ Untouched

(***************************************************************************)
(* Operations.                                                             *)
(***************************************************************************)
\* request x has been handed to handle and something of it is still to run
InFlight(x) ==
  \/ pc[x] = "inHandler"
  \/ pc[x] = "returned" /\ nextTick[x] # << >>
  \/ pc[x] = "returned" /\ hargs[x] # << >> /\ hres[x] = << >>

\* the circumstances of a call of cb for request r
CbContext(r, sync) ==
  [sync |-> sync, inFlight |-> { x \in Reqs \ {r} : InFlight(x) }]

\* handle(msg, commandId, commandParams, commandData, ..., cb), up to its
\* return, its throw or the call of the subcommand handler
Handle(r) ==
  /\ pc[r] = "ready"
  /\ LET q == req[r][1]
         m == AssignParams(q.commandParams)
         subCommand == SubCommandOf(m.subCommandId)
         sl == AbsoluteSlices(q.buf, m.hdr)
     IN  /\ msg' = [msg EXCEPT ![r] = << m >>]
         /\ IF subCommand = NoName
            THEN \* self and callback are not defined: a ReferenceError leaves handle
                 /\ pc' = [pc EXCEPT ![r] = "threw"]
                 /\ UNCHANGED << subCmdHandlers, local, nextTick, hargs, cbLog, cbWhen >>
            ELSE /\ local' = [local EXCEPT ![r] =
                       << LocalSlices(q.commandData, q.commandDataOffset, m.hdr) >>]
                 /\ IF IsIncomplete(m.hdr)
                    THEN /\ IF DeliverChunkedOnNextTick
                            THEN /\ nextTick' = [nextTick EXCEPT ![r] =
                                       Append(@, ChunkedResult(q.commandParams, q.commandData))]
                                 /\ UNCHANGED << cbLog, cbWhen >>
                            ELSE /\ cbLog' = [cbLog EXCEPT ![r] =
                                       Append(@, ChunkedResult(q.commandParams, q.commandData))]
                                 /\ cbWhen' = [cbWhen EXCEPT ![r] = Append(@, CbContext(r, TRUE))]
                                 /\ UNCHANGED nextTick
                         /\ pc' = [pc EXCEPT ![r] = "returned"]
                         /\ UNCHANGED << subCmdHandlers, hargs >>
                    ELSE /\ subCmdHandlers' = RegistryAfterLookup(subCmdHandlers, subCommand)
                         /\ IF subCommand \in subCmdHandlers
                            THEN /\ hargs' = [hargs EXCEPT ![r] = Append(@,
                                       [handler |-> subCommand, commandId |-> m.subCommandId,
                                        commandParams |-> sl.subParams, commandData |-> sl.subData,
                                        commandParamsOffset |-> m.hdr["parameterOffset"],
                                        commandDataOffset |-> m.hdr["dataOffset"]])]
                                 /\ pc' = [pc EXCEPT ![r] = "inHandler"]
                                 /\ UNCHANGED << nextTick, cbLog, cbWhen >>
                            ELSE /\ cbLog' = [cbLog EXCEPT ![r] =
                                       Append(@, UnsupportedResult(q.commandParams, q.commandData))]
                                 /\ cbWhen' = [cbWhen EXCEPT ![r] = Append(@, CbContext(r, TRUE))]
                                 /\ pc' = [pc EXCEPT ![r] = "returned"]
                                 /\ UNCHANGED << nextTick, hargs >>
  /\ UNCHANGED << SMB_MIN_LENGTH, handlerImpl, req, hres, hobj, asm >>

\* the function queued with process.nextTick runs, once handle has returned
Tick(r) ==
  /\ pc[r] = "returned"
  /\ nextTick[r] # << >>
  /\ cbLog' = [cbLog EXCEPT ![r] = Append(@, TickResult(nextTick, r))]
  /\ cbWhen' = [cbWhen EXCEPT ![r] = Append(@, CbContext(r, FALSE))]
  /\ nextTick' = [nextTick EXCEPT ![r] = Tail(@)]
  /\ UNCHANGED << subCmdHandlers, SMB_MIN_LENGTH, handlerImpl, req, pc, msg, local, hargs, hres, hobj, asm >>

\* the subcommand handler passes a result to its continuation, before or after
\* it has returned to handle, and once at most
HandlerCallback(r) ==
  /\ pc[r] \in {"inHandler", "returned"}
  /\ hargs[r] # << >>
  /\ hres[r] = << >>
  /\ \E result \in ResultsOf(handlerImpl) :
       LET calls == ContinuationCalls(result, req[r][1].commandParams,
                                      req[r][1].commandData, SMB_MIN_LENGTH)
       IN  /\ hres' = [hres EXCEPT ![r] = << result >>]
           /\ hobj' = [hobj EXCEPT ![r] =
                << ResultObjectAfter(result, req[r][1].commandParams,
                                     req[r][1].commandData) >>]
           /\ asm' = [asm EXCEPT ![r] = ContinuationOffsets(result, SMB_MIN_LENGTH)]
           /\ cbLog' = [cbLog EXCEPT ![r] = @ \o calls]
           /\ cbWhen' = [cbWhen EXCEPT ![r] =
                @ \o [i \in 1..Len(calls) |-> CbContext(r, pc[r] = "inHandler")]]
  /\ UNCHANGED << subCmdHandlers, SMB_MIN_LENGTH, handlerImpl, req, pc, msg, local, nextTick, hargs >>

\* the subcommand handler returns to handle, which returns to its caller
HandlerReturn(r) ==
  /\ pc[r] = "inHandler"
  /\ pc' = [pc EXCEPT ![r] = "returned"]
  /\ UNCHANGED << subCmdHandlers, SMB_MIN_LENGTH, handlerImpl, req, msg, local, nextTick, hargs, hres, hobj, asm, cbLog, cbWhen >>

Next ==
  \E r \in Reqs : Handle(r) \/ Tick(r) \/ HandlerCallback(r) \/ HandlerReturn(r)

Spec == Init /\ [][Next]_vars

\* two requests served at a time
SpecConc == InitConc /\ [][Next]_vars

\* nothing of request r is left to run: handle is over, no tick is queued and
\* an invoked handler has passed on its result
Settled(r) ==
  /\ pc[r] \in {"threw", "returned"}
  /\ nextTick[r] = << >>
  /\ hargs[r] # << >> => hres[r] # << >>

TypeOK ==
  /\ subCmdHandlers \subseteq {"nt_transact_create", "nt_transact_ioctl"}
  /\ SMB_MIN_LENGTH \in SmbMinLengths
  /\ \A r \in Reqs :
       /\ pc[r] \in {"absent", "ready", "threw", "inHandler", "returned"}
       /\ Len(cbLog[r]) <= 2
       /\ Len(cbWhen[r]) = Len(cbLog[r])
       /\ Len(hres[r]) <= 1
       /\ Len(hobj[r]) = Len(hres[r])

(***************************************************************************)
(* Properties.                                                             *)
(***************************************************************************)
\* handle has been called for request r
Called(r) == pc[r] \in {"threw", "inHandler", "returned"}

\* the header fields handle decoded for request r, and what they say
HdrOf(r) == msg[r][1].hdr
Mapped(r) == SubCommandOf(HdrOf(r)["function"]) # NoName
Registered(r) == SubCommandOf(HdrOf(r)["function"]) \in subCmdHandlers
DeclaredIncomplete(r) ==
  \/ Num(HdrOf(r)["parameterCount"]) < Num(HdrOf(r)["totalParameterCount"])
  \/ Num(HdrOf(r)["dataCount"]) < Num(HdrOf(r)["totalDataCount"])

\* the original request buffers under a status
Echo(r, status) ==
  [status |-> status, params |-> req[r][1].commandParams, data |-> req[r][1].commandData]

\* the handler of request r has passed on a result, a failed / successful one
Failed(r) == hres[r] # << >> /\ hres[r][1].status # STATUS_SUCCESS
Succeeded(r) == hres[r] # << >> /\ hres[r][1].status = STATUS_SUCCESS
\* the setup of the handler's result, empty when missing
SetupGiven(r) == IF hres[r][1].setup = << >> THEN << >> ELSE hres[r][1].setup[1]

\* the little-endian u32 at a 0-based offset of a buffer
U32At(buf, at) ==
  buf[at + 1] + 256 * buf[at + 2] + 65536 * buf[at + 3] + 16777216 * buf[at + 4]

\* C1: once nothing of a call of handle is left to run (handle has returned
\* or thrown, no tick is queued, an invoked handler has called back), cb has
\* been invoked, whatever the function code, the counts and the registry.
C1_CbInvokedOnEveryPath ==
  \A r \in Reqs : Settled(r) => Len(cbLog[r]) >= 1

\* C2: cb is invoked at most once per call of handle, on every path, given a
\* handler that calls back at most once.
C2_CbAtMostOnce ==
  \A r \in Reqs : Len(cbLog[r]) <= 1

\* a failed handler result has been passed on and cb invoked for it
C2_Witness ==
  \E r \in Reqs : Settled(r) /\ Failed(r) /\ Len(cbLog[r]) = 1

\* C3: a function code with no entry in the lookup table completes the
\* request with STATUS_SMB_BAD_COMMAND and the original commandParams and
\* commandData, and no handler is invoked.
C3_UnknownCodeBadCommand ==
  \A r \in Reqs :
    (Called(r) /\ ~Mapped(r) /\ Settled(r)) =>
      /\ cbLog[r] = << Echo(r, STATUS_SMB_BAD_COMMAND) >>
      /\ hargs[r] = << >>

\* C4: a mapped request with parameterCount < totalParameterCount or
\* dataCount < totalDataCount gets STATUS_NOT_IMPLEMENTED with the original
\* buffers (queued, then delivered), and its handler is never invoked,
\* registered or not.
C4_ChunkedNotImplemented ==
  \A r \in Reqs :
    (Called(r) /\ Mapped(r) /\ DeclaredIncomplete(r)) =>
      /\ hargs[r] = << >> /\ hres[r] = << >>
      /\ nextTick[r] \o cbLog[r] = << Echo(r, STATUS_NOT_IMPLEMENTED) >>
      /\ Settled(r) => cbLog[r] = << Echo(r, STATUS_NOT_IMPLEMENTED) >>

\* a chunked request whose subcommand has a registered handler was answered
C4_Witness ==
  \E r \in Reqs :
    /\ Called(r) /\ Mapped(r) /\ Registered(r) /\ Settled(r)
    /\ Num(HdrOf(r)["parameterCount"]) >= Num(HdrOf(r)["totalParameterCount"])
    /\ Num(HdrOf(r)["dataCount"]) < Num(HdrOf(r)["totalDataCount"])
    /\ cbLog[r] = << Echo(r, STATUS_NOT_IMPLEMENTED) >>

\* C5: a complete request whose function code maps to a name with no
\* registered handler gets STATUS_NOT_IMPLEMENTED with the original buffers.
C5_UnsupportedNotImplemented ==
  \A r \in Reqs :
    (Called(r) /\ Mapped(r) /\ ~DeclaredIncomplete(r) /\ ~Registered(r)) =>
      /\ cbLog[r] = << Echo(r, STATUS_NOT_IMPLEMENTED) >>
      /\ hargs[r] = << >>

\* a complete request with data for an unregistered subcommand was answered
C5_Witness ==
  \E r \in Reqs :
    /\ Called(r) /\ Mapped(r) /\ ~DeclaredIncomplete(r) /\ ~Registered(r)
    /\ req[r][1].commandData # << >>
    /\ req[r][1].commandData # req[r][1].commandParams
    /\ cbLog[r] = << Echo(r, STATUS_NOT_IMPLEMENTED) >>

\* C6: a handler status other than Success reaches cb unchanged, with the
\* original commandParams and commandData and not the handler's params and
\* data, and no response is assembled.
C6_FailurePassedThrough ==
  \A r \in Reqs :
    Failed(r) =>
      /\ Len(cbLog[r]) = 1
      /\ cbLog[r][1].status = hres[r][1].status
      /\ cbLog[r][1].params = req[r][1].commandParams
      /\ cbLog[r][1].data = req[r][1].commandData
      /\ asm[r] = << >>

\* a handler failed with params of its own under a status handle never sets
C6_Witness ==
  \E r \in Reqs :
    /\ Failed(r) /\ hres[r][1].status = STATUS_ACCESS_DENIED
    /\ hres[r][1].params # << >> /\ hres[r][1].data # << >>
    /\ hres[r][1].params # req[r][1].commandParams
    /\ Len(cbLog[r]) = 1
    /\ cbLog[r][1].status = STATUS_ACCESS_DENIED
    /\ cbLog[r][1].params = req[r][1].commandParams

\* the parameter block of C7 but for the SetupCount byte
ParamsLaidOut(r) ==
  LET res == hres[r][1]
      setup == SetupGiven(r)
      out == cbLog[r][1].params
  IN  /\ Len(out) = 36 + Len(setup)
      /\ Len(out) = asm[r][1].paramsLength
      /\ asm[r][1].dataOffset = SMB_MIN_LENGTH + Len(out)
      /\ SubSeq(out, 1, 3) = << 0, 0, 0 >>
      /\ U32At(out, 3) = Len(res.params)
      /\ U32At(out, 7) = Len(res.data)
      /\ U32At(out, 11) = Len(res.params)
      /\ U32At(out, 15) = asm[r][1].subParamsOffset
      /\ U32At(out, 19) = 0
      /\ U32At(out, 23) = Len(res.data)
      /\ U32At(out, 27) = asm[r][1].subDataOffset
      /\ U32At(out, 31) = 0
      /\ SubSeq(out, 37, Len(out)) = setup

\* C7 as claimed: the parameter block of a successful reply is 36 +
\* setup.length bytes: 3 padding bytes, the eight u32 fields, one byte
\* holding setup.length, the setup bytes.
C7_ParamsBlockHoldsSetupLength ==
  \A r \in Reqs :
    Succeeded(r) =>
      /\ Len(cbLog[r]) = 1
      /\ ParamsLaidOut(r)
      /\ cbLog[r][1].params[36] = Len(SetupGiven(r))

\* C7 as amended: the same block, its SetupCount byte holding setup.length
\* modulo 256, which is setup.length for a setup of at most 255 bytes.
C7_ParamsBlockLayout ==
  \A r \in Reqs :
    Succeeded(r) =>
      /\ Len(cbLog[r]) = 1
      /\ ParamsLaidOut(r)
      /\ cbLog[r][1].params[36] = Len(SetupGiven(r)) % 256
      /\ Len(SetupGiven(r)) <= 255 => cbLog[r][1].params[36] = Len(SetupGiven(r))

\* a reply was assembled for a result with params, data and a two-byte setup
C7_Witness ==
  \E r \in Reqs :
    /\ Succeeded(r) /\ Len(cbLog[r]) = 1
    /\ Len(hres[r][1].params) = 3 /\ Len(hres[r][1].data) = 2
    /\ Len(SetupGiven(r)) = 2
    /\ Len(cbLog[r][1].params) = 38

\* C8: the data block of a successful reply is pad1 filler bytes, params,
\* pad2 filler bytes, data, with pad1 = padLength(SMB_MIN_LENGTH + 36 +
\* setup.length, 4) and pad2 = padLength(subParamsOffset + params.length, 4),
\* and the status is Success.
C8_DataBlockLayout ==
  \A r \in Reqs :
    Succeeded(r) =>
      LET res == hres[r][1]
          pad1 == calculatePadLength(SMB_MIN_LENGTH + 36 + Len(SetupGiven(r)), 4)
          pad2 == calculatePadLength(asm[r][1].subParamsOffset + Len(res.params), 4)
      IN  /\ Len(cbLog[r]) = 1
          /\ cbLog[r][1].status = STATUS_SUCCESS
          /\ cbLog[r][1].data = Zeros(pad1) \o res.params \o Zeros(pad2) \o res.data
          /\ Len(cbLog[r][1].data) = pad1 + Len(res.params) + pad2 + Len(res.data)

\* a reply was assembled with both paddings and both payloads present
C8_Witness ==
  \E r \in Reqs :
    /\ Succeeded(r) /\ Len(cbLog[r]) = 1
    /\ asm[r][1].pad1 > 0 /\ asm[r][1].pad2 > 0
    /\ hres[r][1].params # << >> /\ hres[r][1].data # << >>
    /\ Len(cbLog[r][1].data) > Len(hres[r][1].params) + Len(hres[r][1].data)

\* C9: in every response assembly dataOffset <= subParamsOffset <=
\* subDataOffset, and subParamsOffset < subDataOffset when params is not
\* empty.
C9_OffsetsMonotone ==
  \A r \in Reqs :
    asm[r] # << >> =>
      /\ asm[r][1].dataOffset <= asm[r][1].subParamsOffset
      /\ asm[r][1].subParamsOffset <= asm[r][1].subDataOffset
      /\ Len(hres[r][1].params) > 0 =>
           asm[r][1].subParamsOffset < asm[r][1].subDataOffset

\* a reply was assembled for params that end on a 4-byte boundary
C9_Witness ==
  \E r \in Reqs :
    /\ asm[r] # << >> /\ Len(hres[r][1].params) = 4
    /\ asm[r][1].pad2 = 0
    /\ asm[r][1].subDataOffset = asm[r][1].subParamsOffset + 4

\* C10: in every response assembly subParamsOffset and subDataOffset are
\* multiples of 4 and pad1 and pad2 lie in 0..3, for every value of
\* SMB_MIN_LENGTH and all lengths.
C10_OffsetsAligned ==
  \A r \in Reqs :
    asm[r] # << >> =>
      /\ asm[r][1].subParamsOffset % 4 = 0
      /\ asm[r][1].subDataOffset % 4 = 0
      /\ asm[r][1].pad1 \in 0..3
      /\ asm[r][1].pad2 \in 0..3

\* a reply was assembled where both paddings are needed, pad1 in full
C10_Witness ==
  \E r \in Reqs :
    /\ asm[r] # << >>
    /\ asm[r][1].dataOffset % 4 = 1 /\ asm[r][1].pad1 = 3
    /\ Len(hres[r][1].params) % 4 = 3 /\ asm[r][1].pad2 = 1

\* the bytes of buf at the 0-based positions at .. at + n - 1 that buf has
Range(buf, at, n) ==
  LET hi == IF at + n < Len(buf) THEN at + n ELSE Len(buf)
  IN  IF hi <= at THEN << >> ELSE [i \in 1..(hi - at) |-> buf[at + i]]

\* C11: a handler is invoked with msg.buf[parameterOffset, parameterOffset +
\* parameterCount) and msg.buf[dataOffset, dataOffset + dataCount), taken
\* from the whole message at the header's offsets, and with those offsets;
\* the slices of commandData are not what it gets.
C11_HandlerGetsAbsoluteSlices ==
  \A r \in Reqs :
    hargs[r] # << >> =>
      LET h == HdrOf(r)
          a == hargs[r][1]
          buf == req[r][1].buf
      IN  /\ a.commandParams = Range(buf, Num(h["parameterOffset"]), Num(h["parameterCount"]))
          /\ a.commandData = Range(buf, Num(h["dataOffset"]), Num(h["dataCount"]))
          /\ a.commandParamsOffset = h["parameterOffset"]
          /\ a.commandDataOffset = h["dataOffset"]

\* a handler got the four parameter bytes of the message where the slice of
\* commandData holds something else
C11_Witness ==
  \E r \in Reqs :
    /\ hargs[r] # << >>
    /\ HdrOf(r)["parameterCount"] = 4 /\ HdrOf(r)["dataCount"] = 3
    /\ hargs[r][1].commandParams = PayloadBytes(4, 96)
    /\ hargs[r][1].commandData = PayloadBytes(3, 128)
    /\ local[r][1].NT_Trans_Parameters # hargs[r][1].commandParams

\* the status the claim expects for an offset outside the message
MalformedOffset == "MalformedOffset"

\* the header's offsets or offset + count of request r lie beyond msg.buf
OffsetsBeyondMessage(r) ==
  LET h == HdrOf(r)
      n == Len(req[r][1].buf)
  IN  \/ Num(h["parameterOffset"]) + Num(h["parameterCount"]) > n
      \/ Num(h["dataOffset"]) + Num(h["dataCount"]) > n

\* C12: a request whose parameterOffset or dataOffset (or offset + count)
\* lies beyond the message fails as MalformedOffset, and no handler is
\* invoked with a shortened or empty slice.
C12_OffsetsBeyondMessageRejected ==
  \A r \in Reqs :
    (Called(r) /\ Mapped(r) /\ OffsetsBeyondMessage(r)) =>
      /\ hargs[r] = << >>
      /\ Settled(r) => (Len(cbLog[r]) = 1 /\ cbLog[r][1].status = MalformedOffset)

\* commandParams of request r is shorter than the 38 header bytes plus the
\* 2 x setupCount setup bytes it announces
Truncated(r) ==
  LET cp == req[r][1].commandParams
  IN  Len(cp) < 38 \/ Len(cp) < 38 + 2 * cp[36]

\* C13: a commandParams shorter than the header plus its setup bytes fails
\* the command with one error result for the request; it does not go on to
\* the subcommand lookup, the completeness check or a handler.
C13_TruncatedParamsRejected ==
  \A r \in Reqs :
    (Called(r) /\ Truncated(r)) =>
      /\ pc[r] # "threw"
      /\ local[r] = << >> /\ nextTick[r] = << >> /\ hargs[r] = << >>
      /\ Settled(r) => (Len(cbLog[r]) = 1 /\ cbLog[r][1].status # STATUS_SUCCESS)

\* C14: NT_Trans_Parameters is the parameterCount bytes of commandData from
\* padLength(commandDataOffset, 4) on, NT_Trans_Data the dataCount bytes from
\* the next 4-aligned position after them, when commandData is long enough.
C14_LocalSlicesHoldCounts ==
  \A r \in Reqs :
    local[r] # << >> =>
      LET q == req[r][1]
          pcnt == Num(HdrOf(r)["parameterCount"])
          dcnt == Num(HdrOf(r)["dataCount"])
          p0 == calculatePadLength(q.commandDataOffset, 4)
          d0 == p0 + pcnt + calculatePadLength(p0 + pcnt, 4)
      IN  d0 + dcnt <= Len(q.commandData) =>
            /\ local[r][1].NT_Trans_Parameters = Range(q.commandData, p0, pcnt)
            /\ Len(local[r][1].NT_Trans_Parameters) = pcnt
            /\ local[r][1].NT_Trans_Data = Range(q.commandData, d0, dcnt)
            /\ Len(local[r][1].NT_Trans_Data) = dcnt

\* C15: the result object the handler passed on has the same status, params,
\* data and setup after cb was invoked as when the handler passed it on.
C15_HandlerResultUntouched ==
  \A r \in Reqs : hobj[r] # << >> => hobj[r] = hres[r]

\* C16: per request at most one handler invocation, of the handler
\* registered under the very name the table gives for the decoded function
\* code, with that function code; never another handler.
C16_OneExactHandler ==
  \A r \in Reqs :
    /\ Len(hargs[r]) <= 1
    /\ hargs[r] # << >> =>
         /\ HdrOf(r)["function"] # NULL
         /\ hargs[r][1].handler = NTTRANS_SUBCOMMAND_TO_STRING(HdrOf(r)["function"])
         /\ hargs[r][1].handler # NoName
         /\ hargs[r][1].handler \in subCmdHandlers
         /\ hargs[r][1].commandId = HdrOf(r)["function"]

\* the create handler was invoked for function code 1 and has finished, with
\* the ioctl handler registered too
C16_Witness ==
  \E r \in Reqs :
    /\ Settled(r) /\ Len(hargs[r]) = 1 /\ hres[r] # << >>
    /\ hargs[r][1].handler = "nt_transact_create" /\ hargs[r][1].commandId = 1
    /\ "nt_transact_ioctl" \in subCmdHandlers

\* C17: once loaded, the registry is the same after every step of every
\* request: no call of handle and no handler completion adds, removes or
\* replaces an entry.
C17_RegistryReadOnly == [][subCmdHandlers' = subCmdHandlers]_vars

\* a lookup missed and a request finished, the registry still lacking the name
C17_Witness ==
  \E r \in Reqs :
    /\ Called(r) /\ Settled(r) /\ Mapped(r) /\ ~DeclaredIncomplete(r)
    /\ SubCommandOf(HdrOf(r)["function"]) \notin subCmdHandlers
    /\ subCmdHandlers # {}
    /\ Len(cbLog[r]) = 1 /\ cbLog[r][1].status = STATUS_NOT_IMPLEMENTED

\* what request r's cb is to get, from r's own buffers and handler result
OwnOutcome(r) ==
  IF ~Mapped(r) THEN << >>
  ELSE IF DeclaredIncomplete(r) \/ ~Registered(r)
  THEN << Echo(r, STATUS_NOT_IMPLEMENTED) >>
  ELSE IF hres[r] = << >> THEN << >>
  ELSE IF Failed(r)
  THEN << [hres[r][1] EXCEPT !.params = req[r][1].commandParams,
                             !.data = req[r][1].commandData] >>
  ELSE << SuccessResult(hres[r][1], SMB_MIN_LENGTH) >>

\* C18: with two requests in flight and their ticks and handlers finishing
\* in any order, what each request's cb gets is built from that request's
\* own handler result and own commandParams / commandData alone.
C18_RequestsIsolated ==
  \A r \in Reqs :
    Called(r) =>
      /\ cbLog[r] \in { << >>, OwnOutcome(r) }
      /\ Settled(r) => cbLog[r] = OwnOutcome(r)

\* two different requests are answered, one with its assembled reply while
\* the other was in flight, the other with its echo
C18_Witness ==
  \E r \in Reqs, x \in Reqs :
    /\ r # x /\ req[r] # req[x]
    /\ Settled(r) /\ Settled(x)
    /\ Succeeded(r) /\ Len(cbLog[r]) = 1 /\ x \in cbWhen[r][1].inFlight
    /\ Len(cbLog[x]) = 1 /\ cbLog[x][1].status # STATUS_SUCCESS
    /\ cbLog[x][1].params = req[x][1].commandParams

\* C19: in a successful reply the offsets written into the parameter block,
\* taken relative to dataOffset = SMB_MIN_LENGTH + 36 + setup.length, point
\* at params and at data inside the data block; the two ranges do not
\* overlap and end inside the block.
C19_OffsetsLocatePayloads ==
  \A r \in Reqs :
    Succeeded(r) =>
      LET res == hres[r][1]
          out == cbLog[r][1].params
          dat == cbLog[r][1].data
          dataOffset == SMB_MIN_LENGTH + 36 + Len(SetupGiven(r))
          a == U32At(out, 15) - dataOffset
          b == U32At(out, 27) - dataOffset
      IN  /\ a >= 0
          /\ a + Len(res.params) <= b
          /\ b + Len(res.data) <= Len(dat)
          /\ SubSeq(dat, a + 1, a + Len(res.params)) = res.params
          /\ SubSeq(dat, b + 1, b + Len(res.data)) = res.data

\* a reply with both payloads, whose paddings differ
C19_Witness ==
  \E r \in Reqs :
    /\ Succeeded(r) /\ Len(cbLog[r]) = 1
    /\ Len(hres[r][1].params) = 3 /\ Len(hres[r][1].data) = 2
    /\ asm[r][1].pad1 = 3 /\ asm[r][1].pad2 = 1
    /\ U32At(cbLog[r][1].params, 27) = U32At(cbLog[r][1].params, 15) + 4

\* C20: for a chunked transaction cb is not invoked before handle returns
\* but on a later tick, also when no handler is registered; for a complete
\* transaction without a registered handler cb is invoked before handle
\* returns.
C20_ChunkedLaterUnsupportedAtOnce ==
  \A r \in Reqs :
    (Called(r) /\ Mapped(r)) =>
      /\ DeclaredIncomplete(r) =>
           /\ \A i \in 1..Len(cbWhen[r]) : ~cbWhen[r][i].sync
           /\ nextTick[r] # << >> => cbLog[r] = << >>
           /\ Settled(r) => cbLog[r] = << Echo(r, STATUS_NOT_IMPLEMENTED) >>
      /\ (~DeclaredIncomplete(r) /\ ~Registered(r)) =>
           /\ cbLog[r] = << Echo(r, STATUS_NOT_IMPLEMENTED) >>
           /\ cbWhen[r][1].sync

\* a chunked request for a subcommand without a handler was answered on a tick
C20_Witness ==
  \E r \in Reqs :
    /\ Called(r) /\ Mapped(r) /\ DeclaredIncomplete(r) /\ ~Registered(r)
    /\ Settled(r) /\ Len(cbLog[r]) = 1 /\ ~cbWhen[r][1].sync

====
